---- MODULE Spec2Model ----
(***************************************************************************)
(* Model of src/main.py: the per-account transaction replay engine.        *)
(*                                                                         *)
(*   send_modified_transaction  blockhash fetch with retry, keypair,       *)
(*                              decode, mutate, bind + sign, broadcast     *)
(*   check_transaction_status   one status query mapped to a boolean       *)
(*   process_wallet             the per-account repeat loop                *)
(*   read_data_from_csv         the all-or-nothing load of the dataset     *)
(*   __main__                   load, ThreadPoolExecutor fan-out and join  *)
(*                                                                         *)
(* Every RPC call is one atomic step of the calling thread; the local      *)
(* computation between two RPC calls is one step.  Durations are in tenths *)
(* of a time-unit (0.5 -> 5, 5 -> 50, [2,5] -> 20..50).                    *)
(***************************************************************************)
EXTENDS Integers, Sequences, FiniteSets, TLC

\* ---------------------------------------------------------------- bounds
NumAccounts == 3   \* rows of the dataset
PoolSize == 2      \* worker threads of the executor (stand-in for the default max_workers)
MaxRepeat == 2     \* largest repeat_count of a row
MaxFaults == 6     \* RPC failures / non-terminal status reports the endpoint may produce in a run

\* ------------------------------------------------------ program constants
Retries == 5       \* get_latest_blockhash_with_retry(retries=5)
FetchDelay == 5    \* delay=0.5
PollDelay == 50    \* time.sleep(5)
JitterMin == 20    \* random.uniform(2, 5)
JitterMax == 50
KeyLen == 64       \* Keypair.from_bytes takes exactly 64 bytes
ByteMax == 255     \* random.randint(0, 255)

None == [none |-> TRUE]

\* ------------------------------------------------------------ the dataset
\* A private key as the list of integers ast.literal_eval returns: its length
\* and whether every element is a byte.
GoodKey == [len |-> KeyLen, bytes |-> TRUE]
ShortKey == [len |-> 3, bytes |-> TRUE]

\* A base64 payload: whether it deserializes, and the data of its instructions.
TemplateGood == [decodable |-> TRUE, instrs |-> << <<7>>, <<8, 9>> >>]
TemplateOneInstr == [decodable |-> TRUE, instrs |-> << <<7>> >>]
TemplateEmptyData == [decodable |-> TRUE, instrs |-> << <<7>>, <<>> >>]
TemplateGarbage == [decodable |-> FALSE, instrs |-> <<>>]

Templates == {TemplateGood, TemplateOneInstr, TemplateEmptyData, TemplateGarbage}

\* The rows read_data_from_csv can return: it validates neither the key nor the payload.
Rows ==
  {[private_key |-> GoodKey, data |-> t, repeat_count |-> n] : t \in Templates, n \in 1..MaxRepeat}
  \cup {[private_key |-> ShortKey, data |-> TemplateGood, repeat_count |-> n] : n \in 1..MaxRepeat}

\* The rows of the multi-account runs.
SchedRows == {r \in Rows : r.repeat_count = MaxRepeat /\ r.data = TemplateGood}

\* The values random.randint(0, 255) is drawn from here: both ends of the range
\* and the byte the good template already ends with.
RandomBytes == {0, 9, ByteMax}

\* The values random.uniform(2, 5) is drawn from here: both ends and the middle.
JitterValues == {JitterMin, (JitterMin + JitterMax) \div 2, JitterMax}

\* What client.get_transaction can answer: no value, a value without metadata,
\* metadata without an error, metadata with an error, or an exception.
Reports == {"NotFound", "NoMeta", "Success", "Failed", "Exc"}

\* The ways an iteration of process_wallet ends.
Errors == {"BlockhashUnavailable", "DeserializeError", "MutateError", "BroadcastError"}

VARIABLES
  tasks,      \* the rows of the file, as read_data_from_csv parses them: account -> row
  malformed,  \* the rows whose private_key or repeat_count does not parse
  stuck,      \* accounts whose transactions the endpoint never reports as succeeded
  faults,     \* failures and non-terminal reports produced so far
  mpc,        \* position of the main thread
  mi,         \* index of the main thread's current loop (load loop, submit loop, join loop)
  exitCode,   \* exit status of the process (-1 while it runs)
  wpc,        \* position of each account's task
  iteration,  \* process_wallet: iterations finished so far
  calls,      \* number of send_modified_transaction calls made
  attempt,    \* get_latest_blockhash_with_retry: attempt
  bhCalls,    \* client.get_latest_blockhash() calls made in the current call
  bhSlept,    \* time slept between blockhash attempts in the current call
  blockhash,  \* send_modified_transaction: blockhash
  pipeline,   \* steps the current repetition has entered, in order
  outcomes,   \* how each finished iteration ended: "Confirmed" or its error
  tx,         \* send_modified_transaction: tx (None before it is built)
  sent,       \* the transaction the endpoint received in this repetition (None if none)
  pending,    \* signatures submitted and not yet reported as succeeded
  queries,    \* status queries made for the current signature
  pollSlept,  \* time slept between status queries for the current signature
  seen,       \* the kinds of status report received for the current signature
  jitter,     \* the jitter delay of the current repetition (0 if none yet)
  cycles      \* repetitions that went through submit, confirm and jitter

Accounts == DOMAIN tasks

vars == <<tasks, malformed, stuck, faults, mpc, mi, exitCode, wpc, iteration, calls, attempt, bhCalls,
          bhSlept, blockhash, pipeline, outcomes, tx, sent, pending, queries, pollSlept,
          seen, jitter, cycles>>

envVars == <<tasks, malformed, stuck>>
mainVars == <<mpc, mi, exitCode>>
fetchVars == <<attempt, bhCalls, bhSlept, blockhash>>
pollVars == <<queries, pollSlept, seen, jitter>>

\* ---------------------------------------------------------- pure functions

\* bytes(private_key) followed by Keypair.from_bytes: TRUE iff a keypair results.
KeypairFromBytes(private_key) ==
  /\ private_key.bytes
  /\ private_key.len = KeyLen

\* base64.b64decode + Transaction.deserialize + to_json + json.loads
DecodeOk(data) == data.decodable

Decode(data) == data.instrs

\* tx['message']['instructions'][1]['data'][-1] = random_number  (index 1 is the second)
MutateOk(instrs) == Len(instrs) >= 2 /\ Len(instrs[2]) >= 1

\* Mutate with the first byte of the data overwritten (index 0 instead of -1)
Mutate_FirstByte(instrs, r) ==
  [instrs EXCEPT ![2] = [instrs[2] EXCEPT ![1] = r]]

Mutate(instrs, r) ==
  [instrs EXCEPT ![2] = [instrs[2] EXCEPT ![Len(instrs[2])] = r]]

\* tx.sign(keypair): the signature, as the message content it is computed over
\* (the key is the account's own)
Sign(instrs, recent_blockhash) ==
  [instrs |-> instrs, recent_blockhash |-> recent_blockhash]

\* check_transaction_status with the metadata test dropped: a report without
\* metadata counts as a success
CheckTransactionStatus_NoMetaOk(report) ==
  CASE report = "Exc" -> FALSE
    [] report = "NotFound" -> FALSE
    [] report = "NoMeta" -> TRUE
    [] report = "Success" -> TRUE
    [] report = "Failed" -> FALSE

\* check_transaction_status: the boolean returned for a status report
CheckTransactionStatus(report) ==
  CASE report = "Exc" -> FALSE
    [] report = "NotFound" -> FALSE
    [] report = "NoMeta" -> FALSE
    [] report = "Success" -> TRUE
    [] report = "Failed" -> FALSE

Running(a) == wpc[a] \notin {"unsubmitted", "queued", "done", "raised"}

Finished(a) == wpc[a] \in {"done", "raised"}

\* ------------------------------------------------------------------- Init
InitRun ==
  /\ malformed \in SUBSET Accounts
  /\ stuck \in SUBSET Accounts
  /\ faults = 0
  /\ mpc = "load"
  /\ mi = 1
  /\ exitCode = -1
  /\ wpc = [a \in Accounts |-> "unsubmitted"]
  /\ iteration = [a \in Accounts |-> 0]
  /\ calls = [a \in Accounts |-> 0]
  /\ attempt = [a \in Accounts |-> 0]
  /\ bhCalls = [a \in Accounts |-> 0]
  /\ bhSlept = [a \in Accounts |-> 0]
  /\ blockhash = [a \in Accounts |-> None]
  /\ pipeline = [a \in Accounts |-> <<>>]
  /\ outcomes = [a \in Accounts |-> <<>>]
  /\ tx = [a \in Accounts |-> None]
  /\ sent = [a \in Accounts |-> None]
  /\ pending = [a \in Accounts |-> {}]
  /\ queries = [a \in Accounts |-> 0]
  /\ pollSlept = [a \in Accounts |-> 0]
  /\ seen = [a \in Accounts |-> {}]
  /\ jitter = [a \in Accounts |-> 0]
  /\ cycles = [a \in Accounts |-> 0]

\* one account, any row
Init ==
  /\ tasks \in [1..1 -> Rows]
  /\ InitRun

\* NumAccounts accounts
InitSched ==
  /\ tasks \in [1..NumAccounts -> SchedRows]
  /\ InitRun
  /\ Cardinality(stuck) <= 1
  /\ \A a \in stuck : KeypairFromBytes(tasks[a].private_key)

\* ------------------------------------------------------------ main thread

\* LoadFail with the malformed row skipped and the load carried on
LoadFail_SkipRow ==
  /\ mpc = "load"
  /\ mi \in malformed
  /\ IF mi = Len(tasks)
       THEN mpc' = "submit" /\ mi' = 1
       ELSE mpc' = mpc /\ mi' = mi + 1
  /\ UNCHANGED <<envVars, faults, exitCode, wpc, iteration, calls, fetchVars, pipeline,
                 outcomes, tx, sent, pending, pollVars, cycles>>

\* read_data_from_csv: one pass of its loop over a row that parses; after the
\* last row it returns the list and the main thread enters the with block
LoadRow ==
  /\ mpc = "load"
  /\ mi \notin malformed
  /\ IF mi = Len(tasks)
       THEN mpc' = "submit" /\ mi' = 1
       ELSE mpc' = mpc /\ mi' = mi + 1
  /\ UNCHANGED <<envVars, faults, exitCode, wpc, iteration, calls, fetchVars, pipeline,
                 outcomes, tx, sent, pending, pollVars, cycles>>

\* read_data_from_csv: ast.literal_eval or int raises on the row; the function
\* raises RuntimeError, and the main thread prints it and calls exit(1)
LoadFail ==
  /\ mpc = "load"
  /\ mi \in malformed
  /\ mpc' = "exited"
  /\ exitCode' = 1
  /\ UNCHANGED <<envVars, faults, mi, wpc, iteration, calls, fetchVars, pipeline,
                 outcomes, tx, sent, pending, pollVars, cycles>>

\* executor.submit(process_wallet, ...) for the next row
SubmitTask ==
  /\ mpc = "submit"
  /\ wpc' = [wpc EXCEPT ![mi] = "queued"]
  /\ IF mi = Len(tasks)
       THEN mpc' = "join" /\ mi' = 1
       ELSE mpc' = mpc /\ mi' = mi + 1
  /\ UNCHANGED <<envVars, faults, exitCode, iteration, calls, fetchVars, pipeline, outcomes, tx, sent,
                 pending, pollVars, cycles>>

\* future.result() returns: the task ended normally
JoinResult ==
  /\ mpc = "join"
  /\ wpc[mi] = "done"
  /\ IF mi = Len(tasks)
       THEN mpc' = "shutdown" /\ mi' = mi
       ELSE mpc' = mpc /\ mi' = mi + 1
  /\ UNCHANGED <<envVars, faults, exitCode, wpc, iteration, calls, fetchVars, pipeline, outcomes, tx, sent,
                 pending, pollVars, cycles>>

\* future.result() re-raises the task's exception: it leaves the for loop
JoinRaise ==
  /\ mpc = "join"
  /\ wpc[mi] = "raised"
  /\ mpc' = "unwinding"
  /\ UNCHANGED <<envVars, faults, mi, exitCode, wpc, iteration, calls, fetchVars, pipeline, outcomes, tx,
                 sent, pending, pollVars, cycles>>

\* the with block's exit: shutdown(wait=True) returns once every task has ended;
\* the script then ends (status 0), or the exception re-raised by the join ends
\* it with a traceback (status 1)
ExecutorExit ==
  /\ mpc \in {"shutdown", "unwinding"}
  /\ \A a \in Accounts : Finished(a)
  /\ mpc' = IF mpc = "shutdown" THEN "returned" ELSE "crashed"
  /\ exitCode' = IF mpc = "shutdown" THEN 0 ELSE 1
  /\ UNCHANGED <<envVars, faults, mi, wpc, iteration, calls, fetchVars, pipeline, outcomes, tx,
                 sent, pending, pollVars, cycles>>

\* ---------------------------------------------------------------- workers

\* StartWorker with an executor of a single thread
StartWorker_Serial(a) ==
  /\ wpc[a] = "queued"
  /\ \A b \in Accounts : wpc[b] = "queued" => a <= b
  /\ Cardinality({b \in Accounts : Running(b)}) < 1
  /\ wpc' = [wpc EXCEPT ![a] =
               IF ~KeypairFromBytes(tasks[a].private_key) THEN "raised"
               ELSE IF tasks[a].repeat_count <= 0 THEN "done"
               ELSE "loop"]
  /\ UNCHANGED <<envVars, faults, mainVars, iteration, calls, fetchVars, pipeline,
                 outcomes, tx, sent, pending, pollVars, cycles>>

\* A pool thread takes the oldest queued work item and runs process_wallet up to
\* its loop: Client(rpc), Keypair.from_bytes (which may raise), pubkey, and the
\* for statement (which ends at once when repeat_count is 0).
StartWorker(a) ==
  /\ wpc[a] = "queued"
  /\ \A b \in Accounts : wpc[b] = "queued" => a <= b
  /\ Cardinality({b \in Accounts : Running(b)}) < PoolSize
  /\ wpc' = [wpc EXCEPT ![a] =
               IF ~KeypairFromBytes(tasks[a].private_key) THEN "raised"
               ELSE IF tasks[a].repeat_count <= 0 THEN "done"
               ELSE "loop"]
  /\ UNCHANGED <<envVars, faults, mainVars, iteration, calls, fetchVars, pipeline,
                 outcomes, tx, sent, pending, pollVars, cycles>>

\* LoopNext with the blockhash kept from the previous call and fetched only
\* when there is none
LoopNext_Cached(a) ==
  /\ wpc[a] = "loop"
  /\ wpc' = [wpc EXCEPT ![a] = IF blockhash[a] = None THEN "fetch" ELSE "fetched"]
  /\ calls' = [calls EXCEPT ![a] = @ + 1]
  /\ attempt' = [attempt EXCEPT ![a] = 1]
  /\ bhCalls' = [bhCalls EXCEPT ![a] = 0]
  /\ bhSlept' = [bhSlept EXCEPT ![a] = 0]
  /\ pipeline' = [pipeline EXCEPT ![a] = IF blockhash[a] = None THEN <<>> ELSE <<"fetch">>]
  /\ tx' = [tx EXCEPT ![a] = None]
  /\ sent' = [sent EXCEPT ![a] = None]
  /\ queries' = [queries EXCEPT ![a] = 0]
  /\ pollSlept' = [pollSlept EXCEPT ![a] = 0]
  /\ seen' = [seen EXCEPT ![a] = {}]
  /\ jitter' = [jitter EXCEPT ![a] = 0]
  /\ UNCHANGED <<envVars, faults, mainVars, iteration, blockhash, outcomes, pending,
                 cycles>>

\* for iteration in range(repeat_count): the next iteration calls
\* send_modified_transaction, whose locals start unbound
LoopNext(a) ==
  /\ wpc[a] = "loop"
  /\ wpc' = [wpc EXCEPT ![a] = "fetch"]
  /\ calls' = [calls EXCEPT ![a] = @ + 1]
  /\ attempt' = [attempt EXCEPT ![a] = 1]
  /\ bhCalls' = [bhCalls EXCEPT ![a] = 0]
  /\ bhSlept' = [bhSlept EXCEPT ![a] = 0]
  /\ blockhash' = [blockhash EXCEPT ![a] = None]
  /\ pipeline' = [pipeline EXCEPT ![a] = <<>>]
  /\ tx' = [tx EXCEPT ![a] = None]
  /\ sent' = [sent EXCEPT ![a] = None]
  /\ queries' = [queries EXCEPT ![a] = 0]
  /\ pollSlept' = [pollSlept EXCEPT ![a] = 0]
  /\ seen' = [seen EXCEPT ![a] = {}]
  /\ jitter' = [jitter EXCEPT ![a] = 0]
  /\ UNCHANGED <<envVars, faults, mainVars, iteration, outcomes, pending, cycles>>

\* The iteration ends (the except clause, or the break out of the polling loop):
\* the for statement goes on, or process_wallet returns after the last iteration.
EndIteration(a) ==
  /\ iteration' = [iteration EXCEPT ![a] = @ + 1]
  /\ wpc' = [wpc EXCEPT ![a] =
               IF iteration[a] + 1 < tasks[a].repeat_count THEN "loop" ELSE "done"]

\* client.get_latest_blockhash() returns: the function returns the hash at once
FetchOk(a) ==
  /\ wpc[a] = "fetch"
  /\ bhCalls' = [bhCalls EXCEPT ![a] = @ + 1]
  /\ blockhash' = [blockhash EXCEPT ![a] = [acct |-> a, call |-> calls[a]]]
  /\ pipeline' = [pipeline EXCEPT ![a] = Append(@, "fetch")]
  /\ wpc' = [wpc EXCEPT ![a] = "fetched"]
  /\ UNCHANGED <<envVars, faults, mainVars, iteration, calls, attempt, bhSlept, outcomes,
                 tx, sent, pending, pollVars, cycles>>

\* FetchFail with the retry test off by one (attempt <= retries)
FetchFail_OffByOne(a) ==
  /\ wpc[a] = "fetch"
  /\ faults < MaxFaults
  /\ faults' = faults + 1
  /\ bhCalls' = [bhCalls EXCEPT ![a] = @ + 1]
  /\ IF attempt[a] <= Retries
       THEN /\ attempt' = [attempt EXCEPT ![a] = @ + 1]
            /\ bhSlept' = [bhSlept EXCEPT ![a] = @ + FetchDelay]
            /\ UNCHANGED <<wpc, pipeline>>
       ELSE /\ wpc' = [wpc EXCEPT ![a] = "fetched"]
            /\ pipeline' = [pipeline EXCEPT ![a] = Append(@, "fetch")]
            /\ UNCHANGED <<attempt, bhSlept>>
  /\ UNCHANGED <<envVars, mainVars, iteration, calls, blockhash, outcomes, tx, sent,
                 pending, pollVars, cycles>>

\* client.get_latest_blockhash() raises: sleep and retry, or give up with None
FetchFail(a) ==
  /\ wpc[a] = "fetch"
  /\ faults < MaxFaults
  /\ faults' = faults + 1
  /\ bhCalls' = [bhCalls EXCEPT ![a] = @ + 1]
  /\ IF attempt[a] < Retries
       THEN /\ attempt' = [attempt EXCEPT ![a] = @ + 1]
            /\ bhSlept' = [bhSlept EXCEPT ![a] = @ + FetchDelay]
            /\ UNCHANGED <<wpc, pipeline>>
       ELSE /\ wpc' = [wpc EXCEPT ![a] = "fetched"]
            /\ pipeline' = [pipeline EXCEPT ![a] = Append(@, "fetch")]
            /\ UNCHANGED <<attempt, bhSlept>>
  /\ UNCHANGED <<envVars, mainVars, iteration, calls, blockhash, outcomes, tx, sent,
                 pending, pollVars, cycles>>

\* BlockhashMissing with the RuntimeError not caught by the loop: the task ends
BlockhashMissing_Abort(a) ==
  /\ wpc[a] = "fetched"
  /\ blockhash[a] = None
  /\ attempt' = [attempt EXCEPT ![a] = 0]
  /\ outcomes' = [outcomes EXCEPT ![a] = Append(@, "BlockhashUnavailable")]
  /\ iteration' = [iteration EXCEPT ![a] = @ + 1]
  /\ wpc' = [wpc EXCEPT ![a] = "raised"]
  /\ UNCHANGED <<envVars, faults, mainVars, calls, bhCalls, bhSlept, blockhash, pipeline,
                 tx, sent, pending, pollVars, cycles>>

\* if not blockhash: raise RuntimeError, caught by process_wallet
BlockhashMissing(a) ==
  /\ wpc[a] = "fetched"
  /\ blockhash[a] = None
  /\ attempt' = [attempt EXCEPT ![a] = 0]
  /\ outcomes' = [outcomes EXCEPT ![a] = Append(@, "BlockhashUnavailable")]
  /\ EndIteration(a)
  /\ UNCHANGED <<envVars, faults, mainVars, calls, bhCalls, bhSlept, blockhash, pipeline,
                 tx, sent, pending, pollVars, cycles>>

\* keypair, then the decode fails: raise ValueError, caught by process_wallet
DecodeFail(a) ==
  /\ wpc[a] = "fetched"
  /\ blockhash[a] # None
  /\ ~DecodeOk(tasks[a].data)
  /\ attempt' = [attempt EXCEPT ![a] = 0]
  /\ pipeline' = [pipeline EXCEPT ![a] = @ \o <<"keypair", "decode">>]
  /\ outcomes' = [outcomes EXCEPT ![a] = Append(@, "DeserializeError")]
  /\ EndIteration(a)
  /\ UNCHANGED <<envVars, faults, mainVars, calls, bhCalls, bhSlept, blockhash, tx, sent,
                 pending, pollVars, cycles>>

\* MutateFail with the failure of the overwrite swallowed: the decoded
\* transaction goes on, unmutated, to be bound and signed
MutateFail_Swallowed(a) ==
  /\ wpc[a] = "fetched"
  /\ blockhash[a] # None
  /\ DecodeOk(tasks[a].data)
  /\ ~MutateOk(Decode(tasks[a].data))
  /\ tx' = [tx EXCEPT ![a] = [instrs |-> Decode(tasks[a].data),
                              recent_blockhash |-> blockhash[a],
                              signature |-> Sign(Decode(tasks[a].data), blockhash[a])]]
  /\ attempt' = [attempt EXCEPT ![a] = 0]
  /\ pipeline' = [pipeline EXCEPT ![a] =
                    @ \o <<"keypair", "decode", "mutate", "bind", "sign">>]
  /\ wpc' = [wpc EXCEPT ![a] = "send"]
  /\ UNCHANGED <<envVars, faults, mainVars, iteration, calls, bhCalls, bhSlept, blockhash,
                 outcomes, sent, pending, pollVars, cycles>>

\* keypair, decode, then the byte overwrite fails: raise ValueError, caught
MutateFail(a) ==
  /\ wpc[a] = "fetched"
  /\ blockhash[a] # None
  /\ DecodeOk(tasks[a].data)
  /\ ~MutateOk(Decode(tasks[a].data))
  /\ attempt' = [attempt EXCEPT ![a] = 0]
  /\ pipeline' = [pipeline EXCEPT ![a] = @ \o <<"keypair", "decode", "mutate">>]
  /\ outcomes' = [outcomes EXCEPT ![a] = Append(@, "MutateError")]
  /\ EndIteration(a)
  /\ UNCHANGED <<envVars, faults, mainVars, calls, bhCalls, bhSlept, blockhash, tx, sent,
                 pending, pollVars, cycles>>

\* SignTx with the byte overwritten in the account's template itself, which the
\* next repetition then decodes
SignTx_InPlace(a) ==
  /\ wpc[a] = "fetched"
  /\ blockhash[a] # None
  /\ DecodeOk(tasks[a].data)
  /\ MutateOk(Decode(tasks[a].data))
  /\ \E r \in RandomBytes :
       LET m == Mutate(Decode(tasks[a].data), r)
       IN /\ tx' = [tx EXCEPT ![a] = [instrs |-> m,
                                      recent_blockhash |-> blockhash[a],
                                      signature |-> Sign(m, blockhash[a])]]
          /\ tasks' = [tasks EXCEPT ![a].data.instrs = m]
  /\ attempt' = [attempt EXCEPT ![a] = 0]
  /\ pipeline' = [pipeline EXCEPT ![a] =
                    @ \o <<"keypair", "decode", "mutate", "bind", "sign">>]
  /\ wpc' = [wpc EXCEPT ![a] = "send"]
  /\ UNCHANGED <<malformed, stuck, faults, mainVars, iteration, calls, bhCalls, bhSlept,
                 blockhash, outcomes, sent, pending, pollVars, cycles>>

\* SignTx with the decoded transaction signed first and then mutated and bound
SignTx_SignFirst(a) ==
  /\ wpc[a] = "fetched"
  /\ blockhash[a] # None
  /\ DecodeOk(tasks[a].data)
  /\ MutateOk(Decode(tasks[a].data))
  /\ \E r \in RandomBytes :
       tx' = [tx EXCEPT ![a] = [instrs |-> Mutate(Decode(tasks[a].data), r),
                                recent_blockhash |-> blockhash[a],
                                signature |-> Sign(Decode(tasks[a].data), None)]]
  /\ attempt' = [attempt EXCEPT ![a] = 0]
  /\ pipeline' = [pipeline EXCEPT ![a] =
                    @ \o <<"keypair", "decode", "sign", "mutate", "bind">>]
  /\ wpc' = [wpc EXCEPT ![a] = "send"]
  /\ UNCHANGED <<envVars, faults, mainVars, iteration, calls, bhCalls, bhSlept, blockhash,
                 outcomes, sent, pending, pollVars, cycles>>

\* keypair, decode, mutate, tx.recent_blockhash = blockhash, tx.sign(keypair)
SignTx(a) ==
  /\ wpc[a] = "fetched"
  /\ blockhash[a] # None
  /\ DecodeOk(tasks[a].data)
  /\ MutateOk(Decode(tasks[a].data))
  /\ \E r \in RandomBytes :
       LET m == Mutate(Decode(tasks[a].data), r)
       IN tx' = [tx EXCEPT ![a] = [instrs |-> m,
                                   recent_blockhash |-> blockhash[a],
                                   signature |-> Sign(m, blockhash[a])]]
  /\ attempt' = [attempt EXCEPT ![a] = 0]
  /\ pipeline' = [pipeline EXCEPT ![a] =
                    @ \o <<"keypair", "decode", "mutate", "bind", "sign">>]
  /\ wpc' = [wpc EXCEPT ![a] = "send"]
  /\ UNCHANGED <<envVars, faults, mainVars, iteration, calls, bhCalls, bhSlept, blockhash,
                 outcomes, sent, pending, pollVars, cycles>>

\* BroadcastOk without the polling loop: the iteration ends once the signature
\* is returned
BroadcastOk_NoWait(a) ==
  /\ wpc[a] = "send"
  /\ sent' = [sent EXCEPT ![a] = tx[a]]
  /\ pending' = [pending EXCEPT ![a] = @ \cup {calls[a]}]
  /\ pipeline' = [pipeline EXCEPT ![a] = Append(@, "broadcast")]
  /\ outcomes' = [outcomes EXCEPT ![a] = Append(@, "Confirmed")]
  /\ cycles' = [cycles EXCEPT ![a] = @ + 1]
  /\ EndIteration(a)
  /\ UNCHANGED <<envVars, faults, mainVars, calls, fetchVars, tx, pollVars>>

\* client.send_raw_transaction returns the signature: the polling loop starts
BroadcastOk(a) ==
  /\ wpc[a] = "send"
  /\ sent' = [sent EXCEPT ![a] = tx[a]]
  /\ pending' = [pending EXCEPT ![a] = @ \cup {calls[a]}]
  /\ pipeline' = [pipeline EXCEPT ![a] = Append(@, "broadcast")]
  /\ wpc' = [wpc EXCEPT ![a] = "poll"]
  /\ UNCHANGED <<envVars, faults, mainVars, iteration, calls, fetchVars, outcomes, tx,
                 pollVars, cycles>>

\* BroadcastFail with the failed iteration tried again
BroadcastFail_Retry(a) ==
  /\ wpc[a] = "send"
  /\ faults < MaxFaults
  /\ faults' = faults + 1
  /\ pipeline' = [pipeline EXCEPT ![a] = Append(@, "broadcast")]
  /\ wpc' = [wpc EXCEPT ![a] = "loop"]
  /\ UNCHANGED <<envVars, mainVars, iteration, calls, fetchVars, outcomes, tx, sent,
                 pending, pollVars, cycles>>

\* client.send_raw_transaction raises: raise RuntimeError, caught by process_wallet
BroadcastFail(a) ==
  /\ wpc[a] = "send"
  /\ faults < MaxFaults
  /\ faults' = faults + 1
  /\ pipeline' = [pipeline EXCEPT ![a] = Append(@, "broadcast")]
  /\ outcomes' = [outcomes EXCEPT ![a] = Append(@, "BroadcastError")]
  /\ EndIteration(a)
  /\ UNCHANGED <<envVars, mainVars, calls, fetchVars, tx, sent, pending, pollVars, cycles>>

\* a status query for which check_transaction_status returns True:
\* draw the jitter and sleep
PollConfirmed(a) ==
  /\ wpc[a] = "poll"
  /\ \E report \in Reports :
       /\ report = "Success" => a \notin stuck
       /\ report # "Success" => faults < MaxFaults
       /\ CheckTransactionStatus(report)
       /\ seen' = [seen EXCEPT ![a] = @ \cup {report}]
       /\ faults' = IF report = "Success" THEN faults ELSE faults + 1
  /\ queries' = [queries EXCEPT ![a] = @ + 1]
  /\ pending' = [pending EXCEPT ![a] = @ \ {calls[a]}]
  /\ \E j \in JitterValues : jitter' = [jitter EXCEPT ![a] = j]
  /\ pipeline' = [pipeline EXCEPT ![a] = Append(@, "confirm")]
  /\ wpc' = [wpc EXCEPT ![a] = "jitter"]
  /\ UNCHANGED <<envVars, mainVars, iteration, calls, fetchVars, outcomes, tx, sent,
                 pollSlept, cycles>>

\* a status query for which check_transaction_status returns False:
\* sleep 5 and query again
PollRetry(a) ==
  /\ wpc[a] = "poll"
  /\ \E report \in Reports :
       /\ report = "Success" => a \notin stuck
       /\ report # "Success" => faults < MaxFaults
       /\ ~CheckTransactionStatus(report)
       /\ seen' = [seen EXCEPT ![a] = @ \cup {report}]
       /\ faults' = IF report = "Success" THEN faults ELSE faults + 1
  /\ queries' = [queries EXCEPT ![a] = @ + 1]
  /\ pollSlept' = [pollSlept EXCEPT ![a] = @ + PollDelay]
  /\ UNCHANGED <<envVars, mainVars, wpc, iteration, calls, fetchVars, pipeline, outcomes,
                 tx, sent, pending, jitter, cycles>>

\* time.sleep(sleep_time) is over: break, and the iteration ends
JitterDone(a) ==
  /\ wpc[a] = "jitter"
  /\ pipeline' = [pipeline EXCEPT ![a] = Append(@, "jitter")]
  /\ outcomes' = [outcomes EXCEPT ![a] = Append(@, "Confirmed")]
  /\ cycles' = [cycles EXCEPT ![a] = @ + 1]
  /\ EndIteration(a)
  /\ UNCHANGED <<envVars, faults, mainVars, calls, fetchVars, tx, sent, pending, pollVars>>

Next ==
  \/ LoadRow
  \/ LoadFail
  \/ SubmitTask
  \/ JoinResult
  \/ JoinRaise
  \/ ExecutorExit
  \/ \E a \in Accounts : StartWorker(a)
  \/ \E a \in Accounts : LoopNext(a)
  \/ \E a \in Accounts : FetchOk(a)
  \/ \E a \in Accounts : FetchFail(a)
  \/ \E a \in Accounts : BlockhashMissing(a)
  \/ \E a \in Accounts : DecodeFail(a)
  \/ \E a \in Accounts : MutateFail(a)
  \/ \E a \in Accounts : SignTx(a)
  \/ \E a \in Accounts : BroadcastOk(a)
  \/ \E a \in Accounts : BroadcastFail(a)
  \/ \E a \in Accounts : PollConfirmed(a)
  \/ \E a \in Accounts : PollRetry(a)
  \/ \E a \in Accounts : JitterDone(a)

Spec == Init /\ [][Next]_vars

\* ------------------------------------------------- the multi-account schedule
\* The same program with every call of send_modified_transaction, and every wait
\* for a confirmation, taken as one step of its thread.  The workers share no
\* state, so how their RPC calls interleave inside a call does not matter to the
\* schedule; a status query that is not a success changes nothing here.
\* SchedRefinement below relates the two: every step of Next is such a step.

TemplateOk(data) == DecodeOk(data) /\ MutateOk(Decode(data))

\* SubmissionRaises with the exception leaving process_wallet
SubmissionRaises_Escapes(a) ==
  /\ wpc[a] = "loop"
  /\ calls' = [calls EXCEPT ![a] = @ + 1]
  /\ wpc' = [wpc EXCEPT ![a] = "raised"]
  /\ UNCHANGED <<envVars, faults, mainVars, iteration, fetchVars, pipeline, outcomes, tx,
                 sent, pending, pollVars, cycles>>

\* send_modified_transaction raises (any of its errors): caught, next iteration
SubmissionRaises(a) ==
  /\ wpc[a] = "loop"
  /\ calls' = [calls EXCEPT ![a] = @ + 1]
  /\ EndIteration(a)
  /\ UNCHANGED <<envVars, faults, mainVars, fetchVars, pipeline, outcomes, tx, sent, pending,
                 pollVars, cycles>>

\* send_modified_transaction returns a signature: start polling it
SubmissionReturns(a) ==
  /\ wpc[a] = "loop"
  /\ TemplateOk(tasks[a].data)
  /\ calls' = [calls EXCEPT ![a] = @ + 1]
  /\ pending' = [pending EXCEPT ![a] = @ \cup {calls[a] + 1}]
  /\ wpc' = [wpc EXCEPT ![a] = "poll"]
  /\ UNCHANGED <<envVars, faults, mainVars, iteration, fetchVars, pipeline, outcomes, tx, sent,
                 pollVars, cycles>>

\* ConfirmedAndSlept without the break: the confirmed signature is polled again
ConfirmedAndSlept_NoBreak(a) ==
  /\ wpc[a] = "poll"
  /\ a \notin stuck
  /\ pending' = [pending EXCEPT ![a] = @ \ {calls[a]}]
  /\ UNCHANGED <<envVars, faults, mainVars, wpc, iteration, calls, fetchVars, pipeline,
                 outcomes, tx, sent, pollVars, cycles>>

\* check_transaction_status returns True, the jitter sleep passes, break
ConfirmedAndSlept(a) ==
  /\ wpc[a] = "poll"
  /\ a \notin stuck
  /\ CheckTransactionStatus("Success")
  /\ pending' = [pending EXCEPT ![a] = @ \ {calls[a]}]
  /\ cycles' = [cycles EXCEPT ![a] = @ + 1]
  /\ EndIteration(a)
  /\ UNCHANGED <<envVars, faults, mainVars, calls, fetchVars, pipeline, outcomes, tx, sent,
                 pollVars>>

SchedNext ==
  \/ LoadRow
  \/ LoadFail
  \/ SubmitTask
  \/ JoinResult
  \/ JoinRaise
  \/ ExecutorExit
  \/ \E a \in Accounts : StartWorker(a)
  \/ \E a \in Accounts : SubmissionRaises(a)
  \/ \E a \in Accounts : SubmissionReturns(a)
  \/ \E a \in Accounts : ConfirmedAndSlept(a)

SchedSpec == InitSched /\ [][SchedNext]_vars

\* What the schedule-level steps see of an account while the fine steps run: a
\* call in progress has not yet returned or raised, and a task sleeping its
\* jitter has not yet ended its wait.
SchedView(a) ==
  [wpc |-> CASE wpc[a] \in {"fetch", "fetched", "send"} -> "loop"
             [] wpc[a] = "jitter" -> "poll"
             [] OTHER -> wpc[a],
   iteration |-> iteration[a],
   calls |-> IF wpc[a] \in {"fetch", "fetched", "send"} THEN calls[a] - 1 ELSE calls[a],
   pending |-> IF wpc[a] = "jitter" THEN {calls[a]} ELSE pending[a],
   cycles |-> cycles[a]]

\* The change of view a step of SchedNext makes for account a.
SchedViewStep(a, x, y) ==
  LET after == IF x.iteration + 1 < tasks[a].repeat_count THEN "loop" ELSE "done" IN
  \/ x.wpc = "unsubmitted" /\ y = [x EXCEPT !.wpc = "queued"]
  \/ /\ x.wpc = "queued"
     /\ y = [x EXCEPT !.wpc = IF ~KeypairFromBytes(tasks[a].private_key) THEN "raised"
                               ELSE IF tasks[a].repeat_count <= 0 THEN "done"
                               ELSE "loop"]
  \/ /\ x.wpc = "loop"
     /\ y = [x EXCEPT !.calls = @ + 1, !.iteration = @ + 1, !.wpc = after]
  \/ /\ x.wpc = "loop"
     /\ TemplateOk(tasks[a].data)
     /\ y = [x EXCEPT !.calls = @ + 1, !.pending = @ \cup {x.calls + 1}, !.wpc = "poll"]
  \/ /\ x.wpc = "poll"
     /\ a \notin stuck
     /\ y = [x EXCEPT !.pending = @ \ {x.calls}, !.cycles = @ + 1,
                      !.iteration = @ + 1, !.wpc = after]

\* Every step of Next is, in this view, a step of SchedNext or no step at all.
SchedRefinement ==
  [][\A a \in Accounts :
       SchedView(a)' = SchedView(a) \/ SchedViewStep(a, SchedView(a), SchedView(a)')]_vars

\* The steps of the main thread and of one account's task.
MainStep == LoadRow \/ LoadFail \/ SubmitTask \/ JoinResult \/ JoinRaise \/ ExecutorExit

WorkerStep(a) ==
  \/ StartWorker(a)
  \/ SubmissionRaises(a)
  \/ SubmissionReturns(a)
  \/ ConfirmedAndSlept(a)

\* Threads are scheduled fairly and every RPC call returns: a thread that can take
\* a step eventually takes one.  An account outside `stuck` can always take the
\* confirming step while it polls; an account in `stuck` never can.
LiveSpec ==
  /\ SchedSpec
  /\ WF_<<mpc, mi>>(MainStep)
  /\ \A a \in 1..NumAccounts : WF_<<wpc[a], iteration[a]>>(WorkerStep(a))

\* ------------------------------------------------------------ properties

KeyOk(a) == KeypairFromBytes(tasks[a].private_key)

Has(seq, x) == \E i \in 1..Len(seq) : seq[i] = x

\* the task is inside an iteration of the loop
InIteration(a) == wpc[a] \in {"fetch", "fetched", "send", "poll", "jitter"}

\* the task is between two iterations, or has returned
BetweenIterations(a) == wpc[a] \in {"loop", "done"}

\* the outcome of the iteration that ended last ("" if none has ended)
LastOutcome(a) ==
  IF Len(outcomes[a]) = 0 THEN "" ELSE outcomes[a][Len(outcomes[a])]

\* the steps of a repetition that is submitted, confirmed and followed by the jitter
FullCycle ==
  <<"fetch", "keypair", "decode", "mutate", "bind", "sign", "broadcast", "confirm", "jitter">>

\* the reports the poller is specified to retry on
NonTerminal == {"NotFound", "NoMeta", "Exc"}

\* C1 (as claimed): when the first status query answers metadata-with-error, the
\* poll is over after that one query, without a retry delay, and the loop goes on
\* to the next repetition instead of polling the signature again.
C1_FailedIsTerminal ==
  \A a \in Accounts :
    (seen[a] = {"Failed"} /\ queries[a] = 1)
      => (pollSlept[a] = 0 /\ wpc[a] # "poll")

\* C2: after k reports of the kinds absent / no metadata / exception and then a
\* success, the poller has made k+1 queries and slept k times 5 units, and has
\* returned True; before the success it is still polling the same signature in
\* the same iteration, whatever mix of the three kinds it received.
C2_PollUntilSuccess ==
  \A a \in Accounts :
    /\ ("Success" \in seen[a] /\ seen[a] \subseteq NonTerminal \cup {"Success"})
         => /\ queries[a] >= 1
            /\ pollSlept[a] = PollDelay * (queries[a] - 1)
            /\ wpc[a] \in {"jitter", "loop", "done"}
            /\ pending[a] = {}
    /\ (seen[a] # {} /\ seen[a] \subseteq NonTerminal)
         => /\ wpc[a] = "poll"
            /\ pollSlept[a] = PollDelay * queries[a]
            /\ pending[a] = {calls[a]}
            /\ iteration[a] = calls[a] - 1

C2_Witness ==
  \E a \in Accounts :
    /\ seen[a] = NonTerminal \cup {"Success"}
    /\ queries[a] = 4
    /\ wpc[a] = "jitter"

\* C3: every iteration makes one submission attempt; an iteration whose
\* submission failed made no status query and slept no jitter, and is not tried
\* again; the attempts never exceed repeat_count and are exactly repeat_count
\* when the loop has completed.
C3_OneAttemptPerIteration ==
  \A a \in Accounts :
    /\ calls[a] <= tasks[a].repeat_count
    /\ Len(outcomes[a]) = iteration[a]
    /\ InIteration(a) => calls[a] = iteration[a] + 1
    /\ BetweenIterations(a) => calls[a] = iteration[a]
    /\ wpc[a] = "loop" => iteration[a] < tasks[a].repeat_count
    /\ wpc[a] = "done" => calls[a] = tasks[a].repeat_count
    /\ (calls[a] = iteration[a] /\ LastOutcome(a) \in Errors)
         => /\ BetweenIterations(a)
            /\ queries[a] = 0
            /\ pollSlept[a] = 0
            /\ jitter[a] = 0
            /\ ~Has(pipeline[a], "confirm")
            /\ pending[a] = {}

C3_Witness ==
  \E a \in Accounts :
    /\ wpc[a] = "done"
    /\ \E i \in 1..(Len(outcomes[a]) - 1) :
         outcomes[a][i] \in Errors /\ outcomes[a][i + 1] = "Confirmed"

C7_NoErrorEscapes ==
  /\ \A a \in Accounts : wpc[a] # "raised"
  /\ mpc \notin {"unwinding", "crashed"}

\* C8: the fetch makes at most 5 calls; it gives up exactly after the 5th failed
\* call, having slept 0.5 between consecutive calls (4 times), and the call then
\* ends as BlockhashUnavailable; when call K is the first to succeed it returns
\* that hash after exactly K calls and K-1 sleeps.
C8_FetchBounded ==
  \A a \in Accounts :
    /\ bhCalls[a] <= Retries
    /\ wpc[a] = "fetch"
         => /\ attempt[a] \in 1..Retries
            /\ bhCalls[a] = attempt[a] - 1
            /\ bhSlept[a] = FetchDelay * (attempt[a] - 1)
            /\ blockhash[a] = None
    /\ (wpc[a] = "fetched" /\ blockhash[a] = None)
         => /\ bhCalls[a] = Retries
            /\ bhSlept[a] = FetchDelay * (Retries - 1)
    /\ (wpc[a] = "fetched" /\ blockhash[a] # None)
         => /\ bhCalls[a] \in 1..Retries
            /\ bhCalls[a] = attempt[a]
            /\ bhSlept[a] = FetchDelay * (bhCalls[a] - 1)
            /\ blockhash[a] = [acct |-> a, call |-> calls[a]]
    /\ (calls[a] = iteration[a] /\ LastOutcome(a) = "BlockhashUnavailable")
         => /\ bhCalls[a] = Retries
            /\ bhSlept[a] = FetchDelay * (Retries - 1)
    /\ (calls[a] = iteration[a] /\ bhCalls[a] = Retries /\ blockhash[a] = None
          /\ calls[a] > 0)
         => LastOutcome(a) = "BlockhashUnavailable"

C8_Witness ==
  \E a \in Accounts :
    /\ wpc[a] = "fetched"
    /\ blockhash[a] = None
    /\ bhCalls[a] = Retries

\* C9: a repetition whose fetch is exhausted ends there: it has entered no step
\* after the fetch, built and broadcast no transaction and made no status
\* query; the task is not aborted, and unless that was the last repetition the
\* next one can start, with no blockhash until it has fetched one.
C9_ExhaustedFetchAbortsRepetition ==
  \A a \in Accounts :
    /\ (wpc[a] = "fetched" /\ blockhash[a] = None)
         => (pipeline[a] = <<"fetch">> /\ tx[a] = None /\ sent[a] = None)
    /\ wpc[a] \in {"send", "poll", "jitter"} => blockhash[a] # None
    /\ (calls[a] = iteration[a] /\ LastOutcome(a) = "BlockhashUnavailable")
         => /\ pipeline[a] = <<"fetch">>
            /\ tx[a] = None
            /\ sent[a] = None
            /\ queries[a] = 0
            /\ pending[a] = {}
            /\ wpc[a] = IF iteration[a] < tasks[a].repeat_count THEN "loop" ELSE "done"
            /\ iteration[a] < tasks[a].repeat_count => ENABLED LoopNext(a)
    /\ wpc[a] = "fetch" => blockhash[a] = None

C9_Witness ==
  \E a \in Accounts :
    /\ outcomes[a] = <<"BlockhashUnavailable">>
    /\ calls[a] = 2
    /\ wpc[a] = "poll"
    /\ sent[a] # None

\* C10: the blockhash a call holds, binds and broadcasts is the one fetched by
\* this account in this call; a call starts without one.
C10_FreshBlockhash ==
  \A a \in Accounts :
    /\ wpc[a] = "fetch" => blockhash[a] = None
    /\ blockhash[a] # None => blockhash[a] = [acct |-> a, call |-> calls[a]]
    /\ tx[a] # None => tx[a].recent_blockhash = [acct |-> a, call |-> calls[a]]
    /\ sent[a] # None
         => /\ sent[a].recent_blockhash = [acct |-> a, call |-> calls[a]]
            /\ Has(pipeline[a], "fetch")
            /\ InIteration(a) \/ BetweenIterations(a)

C10_Witness ==
  \E a \in Accounts :
    /\ sent[a] # None
    /\ calls[a] = 2
    /\ outcomes[a] = <<"Confirmed">>

\* C6: the scheduler is past its with block only when every task has ended; a
\* task that returned made all of its repeat_count attempts; and a task whose
\* key makes a keypair ends only by returning, whatever failed in it or in any
\* other account.
C6_FailureIsolated ==
  /\ mpc \in {"returned", "crashed"} => \A a \in Accounts : Finished(a)
  /\ \A a \in Accounts :
       /\ calls[a] <= tasks[a].repeat_count
       /\ cycles[a] <= calls[a]
       /\ wpc[a] = "done"
            => (iteration[a] = tasks[a].repeat_count /\ calls[a] = tasks[a].repeat_count)
       /\ (KeyOk(a) /\ Finished(a)) => wpc[a] = "done"

C6_Witness ==
  /\ mpc = "returned"
  /\ \E a, b \in Accounts :
       /\ a # b
       /\ cycles[a] = 0
       /\ calls[a] = tasks[a].repeat_count
       /\ cycles[b] = tasks[b].repeat_count

\* C5: once the dataset has loaded, with at most one account whose polling
\* never ends, the task of every other account eventually ends, and it ends
\* with all of its repetitions done when its key makes a keypair.
C5_StallIsolated ==
  (malformed = {} /\ Cardinality(stuck) <= 1)
    => <>(\A a \in Accounts \ stuck :
            /\ Finished(a)
            /\ KeyOk(a) => (wpc[a] = "done" /\ iteration[a] = tasks[a].repeat_count))

C5_Witness ==
  \E s \in stuck :
    /\ wpc[s] = "poll"
    /\ \A a \in Accounts \ {s} : wpc[a] = "done" /\ cycles[a] = tasks[a].repeat_count

\* the two instruction lists have the same instructions with data of the same length
SameShape(x, y) ==
  /\ Len(x) = Len(y)
  /\ \A i \in 1..Len(x) : Len(x[i]) = Len(y[i])

\* the positions <<instruction, byte>> at which two lists of the same shape differ
Diff(x, y) ==
  {p \in UNION {{<<i, j>> : j \in 1..Len(x[i])} : i \in 1..Len(x)} : x[p[1]][p[2]] # y[p[1]][p[2]]}

\* the position of the last data byte of the second instruction
LastBytePos(instrs) == <<2, Len(instrs[2])>>

\* C11 (as claimed): the transaction built from a valid template differs from the
\* template's decode in exactly one byte.
C11_ExactlyOneByteChanges ==
  \A a \in Accounts :
    tx[a] # None
      => (/\ SameShape(Decode(tasks[a].data), tx[a].instrs)
          /\ Cardinality(Diff(Decode(tasks[a].data), tx[a].instrs)) = 1)

\* C11 (amended): the transaction built from a valid template has the template's
\* instructions with data of the same lengths, its last byte of the second
\* instruction's data is a value of 0..255, and no byte at any other position
\* differs from the template's decode; the overwritten byte itself differs
\* unless the drawn value is the byte already there.
C11_OnlyLastByteOverwritten ==
  \A a \in Accounts :
    tx[a] # None
      => LET orig == Decode(tasks[a].data)
             new == tx[a].instrs
         IN /\ SameShape(orig, new)
            /\ new[2][Len(new[2])] \in 0..ByteMax
            /\ Diff(orig, new) \subseteq {LastBytePos(orig)}
            /\ Cardinality(Diff(orig, new)) <= 1

C11_Witness ==
  \E a \in Accounts :
    /\ tx[a] # None
    /\ Diff(Decode(tasks[a].data), tx[a].instrs) = {LastBytePos(Decode(tasks[a].data))}
    /\ tx[a].instrs[2][2] = ByteMax

\* the template decodes, and has no second instruction or no data in it
Malformed(data) == DecodeOk(data) /\ ~MutateOk(Decode(data))

\* C12: for a template without a second instruction, or with an empty data
\* buffer in it, every repetition that reaches the mutation step ends there with
\* the mutation error; no transaction is built from it (no byte is written),
\* nothing is signed, nothing reaches the endpoint, and no status is queried.
C12_MalformedTemplateFails ==
  \A a \in Accounts :
    Malformed(tasks[a].data)
      => /\ tx[a] = None
         /\ sent[a] = None
         /\ pending[a] = {}
         /\ queries[a] = 0
         /\ ~Has(pipeline[a], "bind")
         /\ ~Has(pipeline[a], "sign")
         /\ ~Has(pipeline[a], "broadcast")
         /\ Has(pipeline[a], "mutate")
              => (/\ BetweenIterations(a)
                  /\ calls[a] = iteration[a]
                  /\ LastOutcome(a) = "MutateError")
         /\ (BetweenIterations(a) /\ calls[a] = iteration[a] /\ calls[a] > 0
               /\ blockhash[a] # None)
              => (LastOutcome(a) = "MutateError" /\ Has(pipeline[a], "mutate"))
         /\ \A i \in 1..Len(outcomes[a]) :
              outcomes[a][i] \in {"MutateError", "BlockhashUnavailable"}

C12_Witness ==
  \E a \in Accounts :
    /\ tasks[a].data = TemplateEmptyData
    /\ wpc[a] = "done"
    /\ outcomes[a] = <<"MutateError", "MutateError">>
    /\ tx[a] = None

\* C13: when a row of the dataset does not parse, the main thread never gets past
\* the load: it ends with exit status 1 at the first such row, no task is ever
\* submitted to the executor, and no account (the rows before the bad one
\* included) makes a send call, a blockhash request or a status query or has a
\* transaction at the endpoint.  The process exits from the load only then.
C13_LoadFailureIsFatal ==
  /\ malformed # {}
       => /\ mpc \in {"load", "exited"}
          /\ \A b \in malformed : mi <= b
          /\ mpc = "exited" => (exitCode = 1 /\ mi \in malformed)
          /\ mpc = "load" => exitCode = -1
          /\ \A a \in Accounts :
               /\ wpc[a] = "unsubmitted"
               /\ calls[a] = 0
               /\ bhCalls[a] = 0
               /\ queries[a] = 0
               /\ sent[a] = None
               /\ pending[a] = {}
  /\ mpc = "exited" => malformed # {}

C13_Witness ==
  /\ mpc = "exited"
  /\ mi = Len(tasks)
  /\ malformed = {Len(tasks)}
  /\ exitCode = 1
  /\ \A a \in Accounts : wpc[a] = "unsubmitted"

IsPrefix(p, q) == Len(p) <= Len(q) /\ p = SubSeq(q, 1, Len(p))

\* the steps of a repetition up to the broadcast
ThroughBroadcast == SubSeq(FullCycle, 1, 7)

\* the last call of send_modified_transaction has ended by raising
RaisedInCall(a) ==
  /\ BetweenIterations(a)
  /\ calls[a] > 0
  /\ calls[a] = iteration[a]
  /\ LastOutcome(a) \in Errors

\* C14: the steps of a repetition are entered in the one order fetch, (keypair,)
\* decode, mutate, bind, sign, broadcast; a transaction at the endpoint carries a
\* signature computed over its mutated instructions and its bound blockhash;
\* a repetition whose fetch, decode or mutation failed has no broadcast; such a
\* failure comes after a blockhash request; and with no blockhash the
\* repetition ends with the blockhash error whatever the template is.
C14_PipelineOrder ==
  \A a \in Accounts :
    /\ IsPrefix(pipeline[a], FullCycle)
    /\ sent[a] # None
         => /\ IsPrefix(ThroughBroadcast, pipeline[a])
            /\ sent[a].recent_blockhash = blockhash[a]
            /\ blockhash[a] # None
            /\ sent[a].signature = Sign(sent[a].instrs, sent[a].recent_blockhash)
    /\ Has(pipeline[a], "broadcast") => (blockhash[a] # None /\ TemplateOk(tasks[a].data))
    /\ (RaisedInCall(a)
          /\ LastOutcome(a) \in {"BlockhashUnavailable", "DeserializeError", "MutateError"})
         => (sent[a] = None /\ ~Has(pipeline[a], "broadcast"))
    /\ (RaisedInCall(a) /\ ~TemplateOk(tasks[a].data))
         => /\ bhCalls[a] >= 1
            /\ pipeline[a][1] = "fetch"
            /\ blockhash[a] = None
                 => (LastOutcome(a) = "BlockhashUnavailable" /\ pipeline[a] = <<"fetch">>)
            /\ blockhash[a] # None
                 => LastOutcome(a) \in {"DeserializeError", "MutateError"}

C14_Witness ==
  \E a \in Accounts :
    /\ sent[a] # None
    /\ wpc[a] = "poll"
    /\ pipeline[a] = ThroughBroadcast
    /\ sent[a].signature = Sign(sent[a].instrs, [acct |-> a, call |-> calls[a]])
    /\ sent[a].instrs # Decode(tasks[a].data)

\* the instructions differ from the template's decode at most in the last data
\* byte of the second instruction
OnlyLastByteDiffers(a, instrs) ==
  /\ SameShape(Decode(tasks[a].data), instrs)
  /\ Diff(Decode(tasks[a].data), instrs) \subseteq {LastBytePos(Decode(tasks[a].data))}

\* C15: no step changes the rows the tasks were started with, so every
\* repetition decodes the payload the file held; and in every repetition the
\* transaction built, and the one at the endpoint, differ from that payload's
\* decode at most in the last data byte of the second instruction.
C15_TemplateUntouched ==
  /\ [][tasks' = tasks]_vars
  /\ [](\A a \in Accounts :
          /\ tasks[a] \in Rows
          /\ tx[a] # None => OnlyLastByteDiffers(a, tx[a].instrs)
          /\ sent[a] # None => OnlyLastByteDiffers(a, sent[a].instrs))

C15_Witness ==
  \E a \in Accounts :
    /\ calls[a] = 2
    /\ outcomes[a] = <<"Confirmed">>
    /\ sent[a] # None
    /\ sent[a].instrs = Mutate(Decode(tasks[a].data), 0)
    /\ tasks[a].data = TemplateGood

\* the process has ended: every task has ended, a task whose key makes a keypair
\* has returned with all of its repetitions done, and when every key makes a
\* keypair the join loop and the with block have returned
Terminated ==
  /\ mpc \in {"returned", "crashed"}
  /\ \A a \in Accounts :
       /\ Finished(a)
       /\ KeyOk(a) => (wpc[a] = "done" /\ iteration[a] = tasks[a].repeat_count)
  /\ (\A a \in Accounts : KeyOk(a)) => (mpc = "returned" /\ exitCode = 0)

\* C16: when the dataset loads and every submitted transaction is eventually
\* reported as succeeded, then under fair scheduling every task eventually ends
\* with its repetitions done and the main thread eventually leaves the join
\* loop and the with block, with more accounts than pool threads.
C16_AllLoopsComplete ==
  (malformed = {} /\ stuck = {}) => <>Terminated

C16_Witness ==
  /\ Cardinality(Accounts) > PoolSize
  /\ malformed = {}
  /\ stuck = {}
  /\ mpc = "returned"
  /\ exitCode = 0
  /\ \A a \in Accounts : wpc[a] = "done" /\ cycles[a] = tasks[a].repeat_count

====
